---- MODULE Spec2Model ----
(***************************************************************************)
(* The per-page freehand drawing / undo-redo state machine of the PDF      *)
(* viewer (src/components/PdfAnnotator/PdfViewer.tsx).                      *)
(*                                                                         *)
(* The state is the React state of the PdfViewer component that the        *)
(* drawing handlers read and write.  Every event handler is one action:    *)
(* React runs a handler to completion and re-renders before the next       *)
(* discrete event is dispatched, so a handler reads the state its          *)
(* predecessor left.  The batch specification adds the handlers that run   *)
(* before the re-render, the replay specification adds the drawing         *)
(* canvases and the effect that paints them, the study specification the   *)
(* analysis of pages and its requests in flight.                           *)
(***************************************************************************)
EXTENDS Integers, Sequences, FiniteSets, Bags, TLC

VARIABLES
    file,           \* the loaded document (0: none)
    numPages,       \* page count reported by the last onDocumentLoadSuccess
    activePage,     \* page the viewer considers active
    drawings,       \* page number -> committed strokes, in paint order
    history,        \* page number -> undo stack of snapshots
    future,         \* page number -> redo stack of snapshots
    isDrawingMode,  \* annotate toggle
    penColor,       \* active colour or the eraser sentinel
    currentPath,    \* in-progress path buffer
    surface,        \* page number -> the page's box and its drawing canvas
    annotations,    \* page number -> the result of the page's analysis
    analyzingPages, \* pages marked as being analyzed
    studyMode,      \* "READ" or "STUDY"
    requests,       \* bag of the analysis requests in flight
    trace           \* history variable: the drawing operations since the load

vars == <<file, numPages, activePage, drawings, history, future,
          isDrawingMode, penColor, currentPath, surface,
          annotations, analyzingPages, studyMode, requests, trace>>

\* The state of the page analysis: the drawing handlers leave it alone
study == <<annotations, analyzingPages, studyMode, requests>>

prog == <<file, numPages, activePage, drawings, history, future,
          isDrawingMode, penColor, currentPath>>

----------------------------------------------------------------------------
(* Bounds of the model *)

MaxHistory == 2

\* Analysis requests in flight at one time
MaxInFlight == 2

(* Program constants *)

PenWidth == 4
EraserWidth == 20

----------------------------------------------------------------------------
(* Inputs.  An input record names the sets the events draw from:          *)
(*   docs       page counts of the documents that can be loaded            *)
(*   positions  positions (clientX, clientY) of mouse events and of the    *)
(*              begin of a touch: they reach a canvas only from inside    *)
(*              the canvas's box                                           *)
(*   touches    positions of touch moves: a touch that began on a canvas   *)
(*              is reported to it wherever the finger moves                *)
(*   rects      bounding rectangles of a canvas                            *)
(*   colours    palette buttons                                            *)
(*   instants   readings of Date.now()                                     *)
(*   pathLen    points a captured path may hold                            *)
(*   depth      snapshots the undo and redo stacks may hold in total       *)

\* COLORS[0].value, the initial pen colour
DefaultColor == "#ef4444"

Eraser == "eraser"

\* The inputs of the history manager's specification.  The points of a
\* stroke play no part in the history manager: the captured paths hold one
\* point, the strokes differ by colour and width.
HistoryInputs ==
    [docs |-> {2},
     positions |-> {<<5, 10>>},
     touches |-> {<<5, 10>>},
     rects |-> {[left |-> 0, top |-> 0, width |-> 10, height |-> 10]},
     colours |-> {DefaultColor, Eraser},
     instants |-> {0},
     pathLen |-> 1,
     depth |-> MaxHistory]

----------------------------------------------------------------------------
(* Helpers *)

RECURSIVE GCD(_, _)
GCD(a, b) == IF b = 0 THEN a ELSE GCD(b, a % b)

Abs(n) == IF n < 0 THEN -n ELSE n

\* The quotient n / d as an exact fraction in lowest terms.
Quotient(n, d) ==
    LET g == GCD(Abs(n), d)
    IN  [num |-> n \div g, den |-> d \div g]

\* (e.clientX - rect.left) / rect.width, (e.clientY - rect.top) / rect.height
NormalizedPoint(pos, rect) ==
    [x |-> Quotient(pos[1] - rect.left, rect.width),
     y |-> Quotient(pos[2] - rect.top, rect.height)]

\* m[k] || []
Get(m, k) == IF k \in DOMAIN m THEN m[k] ELSE <<>>

\* {...m, [k]: v}
Put(m, k, v) == [j \in (DOMAIN m) \cup {k} |-> IF j = k THEN v ELSE m[j]]

EmptyMap == [j \in {} |-> <<>>]

\* arr.slice(0, -1)
DropLast(s) == SubSeq(s, 1, Len(s) - 1)

Last(s) == s[Len(s)]

RECURSIVE SumLen(_, _)
SumLen(m, keys) ==
    IF keys = {} THEN 0
    ELSE LET k == CHOOSE j \in keys : TRUE
         IN  Len(m[k]) + SumLen(m, keys \ {k})

\* Snapshots held on the undo and redo stacks of all pages.
SnapshotTotal == SumLen(history, DOMAIN history) + SumLen(future, DOMAIN future)

----------------------------------------------------------------------------
(* The history variable.  It records, for the first page drawn on since    *)
(* the load, the strokes committed and then the undo / redo calls that     *)
(* followed (undo, redo, clear), for as long as the calls are one of the   *)
(* sequences of Recorded.  Operations on other pages are not recorded.     *)
(* No handler reads it.                                                    *)

FreshTrace == [live |-> TRUE, page |-> 0, strokes |-> <<>>, tail |-> <<>>]

VoidTrace == [live |-> FALSE, page |-> 0, strokes |-> <<>>, tail |-> <<>>]

Undos(n) == [i \in 1..n |-> "undo"]

Redos(n) == [i \in 1..n |-> "redo"]

ScenarioTail == <<"undo", "redo", "undo", "undo", "undo">>

IsPrefix(s, t) == Len(s) <= Len(t) /\ SubSeq(t, 1, Len(s)) = s

\* The calls recorded after n strokes
Recorded(n, tail) ==
    /\ n > 0
    /\ \/ IsPrefix(tail, Undos(n) \o Redos(n))
       \/ IsPrefix(tail, Undos(n) \o <<"clear">>)
       \/ IsPrefix(tail, ScenarioTail)
       \/ tail = <<"redo">>

ObserveCommit(p, stroke) ==
    IF ~trace.live \/ trace.page \notin {0, p} THEN trace
    ELSE IF trace.tail # <<>> THEN VoidTrace
    ELSE [trace EXCEPT !.page = p, !.strokes = Append(@, stroke)]

ObserveCall(p, op) ==
    IF ~trace.live \/ trace.page \notin {0, p} THEN trace
    ELSE IF ~Recorded(Len(trace.strokes), Append(trace.tail, op)) THEN VoidTrace
    ELSE [trace EXCEPT !.tail = Append(@, op)]

----------------------------------------------------------------------------
(* Initial state: useState initialisers *)

Init ==
    /\ file = 0
    /\ numPages = 0
    /\ activePage = 1
    /\ drawings = EmptyMap
    /\ history = EmptyMap
    /\ future = EmptyMap
    /\ isDrawingMode = FALSE
    /\ penColor = DefaultColor
    /\ currentPath = <<>>
    /\ surface = EmptyMap
    /\ annotations = EmptyMap
    /\ analyzingPages = {}
    /\ studyMode = "READ"
    /\ requests = EmptyBag
    /\ trace = FreshTrace

----------------------------------------------------------------------------
(* Document loading and navigation *)

\* Mutant: the redo stacks are not reset
resetViewer_keepsFuture ==
    /\ activePage' = 1
    /\ drawings' = EmptyMap
    /\ history' = EmptyMap
    /\ future' = future

resetViewer ==
    /\ activePage' = 1
    /\ drawings' = EmptyMap
    /\ history' = EmptyMap
    /\ future' = EmptyMap

onFileChange(d) ==
    /\ file' = d
    /\ resetViewer
    /\ UNCHANGED <<numPages, isDrawingMode, penColor, currentPath>>

onDrop(d, isPdf) ==
    IF isPdf
    THEN /\ file' = d
         /\ resetViewer
         /\ UNCHANGED <<numPages, isDrawingMode, penColor, currentPath>>
    ELSE UNCHANGED prog

onUrlSubmit(d) ==
    /\ file' = d
    /\ resetViewer
    /\ UNCHANGED <<numPages, isDrawingMode, penColor, currentPath>>

onDocumentLoadSuccess(n) ==
    /\ numPages' = n
    /\ UNCHANGED <<file, activePage, drawings, history, future,
                   isDrawingMode, penColor, currentPath>>

\* IntersectionObserver callback for an intersecting page element
onIntersect(pageNum) ==
    /\ activePage' = pageNum
    /\ UNCHANGED <<file, numPages, drawings, history, future,
                   isDrawingMode, penColor, currentPath>>

Min(a, b) == IF a < b THEN a ELSE b

Max(a, b) == IF a > b THEN a ELSE b

scrollToPage(pageNum) ==
    /\ activePage' = Min(Max(1, pageNum), numPages)
    /\ UNCHANGED <<file, numPages, drawings, history, future,
                   isDrawingMode, penColor, currentPath>>

----------------------------------------------------------------------------
(* Tool selection *)

toggleDrawingMode ==
    /\ isDrawingMode' = ~isDrawingMode
    /\ UNCHANGED <<file, numPages, activePage, drawings, history, future,
                   penColor, currentPath>>

closeDrawingMode ==
    /\ isDrawingMode' = FALSE
    /\ UNCHANGED <<file, numPages, activePage, drawings, history, future,
                   penColor, currentPath>>

setPenColor(c) ==
    /\ penColor' = c
    /\ UNCHANGED <<file, numPages, activePage, drawings, history, future,
                   isDrawingMode, currentPath>>

----------------------------------------------------------------------------
(* Live stroke capture *)

\* Mutant: a begin event starts a path while drawing mode is off
handleMouseDown_ignoresMode(pos, rect, pageNum) ==
    /\ currentPath' = <<NormalizedPoint(pos, rect)>>
    /\ UNCHANGED <<file, numPages, activePage, drawings, history, future,
                   isDrawingMode, penColor>>

handleMouseDown(pos, rect, pageNum) ==
    IF ~isDrawingMode THEN UNCHANGED prog
    ELSE /\ currentPath' = <<NormalizedPoint(pos, rect)>>
         /\ UNCHANGED <<file, numPages, activePage, drawings, history, future,
                        isDrawingMode, penColor>>

\* Mutant: points are appended while drawing mode is off
handleMouseMove_ignoresMode(pos, rect) ==
    IF Len(currentPath) = 0 THEN UNCHANGED prog
    ELSE /\ currentPath' = Append(currentPath, NormalizedPoint(pos, rect))
         /\ UNCHANGED <<file, numPages, activePage, drawings, history, future,
                        isDrawingMode, penColor>>

handleMouseMove(pos, rect) ==
    IF ~isDrawingMode \/ Len(currentPath) = 0 THEN UNCHANGED prog
    ELSE /\ currentPath' = Append(currentPath, NormalizedPoint(pos, rect))
         /\ UNCHANGED <<file, numPages, activePage, drawings, history, future,
                        isDrawingMode, penColor>>

handleTouchStart(pos, rect, pageNum) ==
    IF ~isDrawingMode THEN UNCHANGED prog
    ELSE /\ currentPath' = <<NormalizedPoint(pos, rect)>>
         /\ UNCHANGED <<file, numPages, activePage, drawings, history, future,
                        isDrawingMode, penColor>>

handleTouchMove(pos, rect) ==
    IF ~isDrawingMode \/ Len(currentPath) = 0 THEN UNCHANGED prog
    ELSE /\ currentPath' = Append(currentPath, NormalizedPoint(pos, rect))
         /\ UNCHANGED <<file, numPages, activePage, drawings, history, future,
                        isDrawingMode, penColor>>

----------------------------------------------------------------------------
(* History manager and drawing store *)

\* Mutant: the redo stack is left as it was
saveHistory_keepsFuture(pageNum) ==
    LET currentDrawings == Get(drawings, pageNum)
    IN  /\ history' = Put(history, pageNum,
                          Append(Get(history, pageNum), currentDrawings))
        /\ future' = future

\* Mutant: setFuture without the spread of prev
saveHistory_dropsOtherPages(pageNum) ==
    LET currentDrawings == Get(drawings, pageNum)
    IN  /\ history' = Put(history, pageNum,
                          Append(Get(history, pageNum), currentDrawings))
        /\ future' = Put(EmptyMap, pageNum, <<>>)

\* Mutant: the undo stack holds one snapshot, the oldest is evicted
saveHistory_capped(pageNum) ==
    LET currentDrawings == Get(drawings, pageNum)
        pushed == Append(Get(history, pageNum), currentDrawings)
    IN  /\ history' = Put(history, pageNum,
                          IF Len(pushed) > 1 THEN Tail(pushed) ELSE pushed)
        /\ future' = Put(future, pageNum, <<>>)

saveHistory(pageNum) ==
    LET currentDrawings == Get(drawings, pageNum)
    IN  /\ history' = Put(history, pageNum,
                          Append(Get(history, pageNum), currentDrawings))
        /\ future' = Put(future, pageNum, <<>>)

\* Mutant: restores the oldest snapshot instead of the most recent
undoStore_oldestSnapshot(d, h, f, page) ==
    LET pageHistory == Get(h, page)
    IN  IF Len(pageHistory) = 0
        THEN [drawings |-> d, history |-> h, future |-> f]
        ELSE [future |-> Put(f, page, Append(Get(f, page), Get(d, page))),
              history |-> Put(h, page, DropLast(pageHistory)),
              drawings |-> Put(d, page, pageHistory[1])]

\* Mutant: no early return on an empty undo stack
undoStore_noGuard(d, h, f, page) ==
    LET pageHistory == Get(h, page)
    IN  [future |-> Put(f, page, Append(Get(f, page), Get(d, page))),
         history |-> Put(h, page, IF Len(pageHistory) = 0 THEN <<>>
                                  ELSE DropLast(pageHistory)),
         drawings |-> Put(d, page, IF Len(pageHistory) = 0 THEN <<>>
                                   ELSE Last(pageHistory))]

\* Mutant: the snapshot is not popped from the undo stack
undoStore_keepsHistory(d, h, f, page) ==
    LET pageHistory == Get(h, page)
    IN  IF Len(pageHistory) = 0
        THEN [drawings |-> d, history |-> h, future |-> f]
        ELSE [future |-> Put(f, page, Append(Get(f, page), Get(d, page))),
              history |-> Put(h, page, pageHistory),
              drawings |-> Put(d, page, Last(pageHistory))]

\* The three maps after undo() with activePage = page
undoStore(d, h, f, page) ==
    LET pageHistory == Get(h, page)
    IN  IF Len(pageHistory) = 0
        THEN [drawings |-> d, history |-> h, future |-> f]
        ELSE LET previousState == Last(pageHistory)
                 newHistory == DropLast(pageHistory)
             IN  [future |-> Put(f, page, Append(Get(f, page), Get(d, page))),
                  history |-> Put(h, page, newHistory),
                  drawings |-> Put(d, page, previousState)]

undo ==
    LET next == undoStore(drawings, history, future, activePage)
    IN  /\ future' = next.future
        /\ history' = next.history
        /\ drawings' = next.drawings
        /\ UNCHANGED <<file, numPages, activePage, isDrawingMode,
                       penColor, currentPath>>

\* Mutant: the snapshot is not popped from the redo stack
redoStore_keepsFuture(d, h, f, page) ==
    LET pageFuture == Get(f, page)
    IN  IF Len(pageFuture) = 0
        THEN [drawings |-> d, history |-> h, future |-> f]
        ELSE [history |-> Put(h, page, Append(Get(h, page), Get(d, page))),
              future |-> Put(f, page, pageFuture),
              drawings |-> Put(d, page, Last(pageFuture))]

\* Mutant: no early return on an empty redo stack
redoStore_noGuard(d, h, f, page) ==
    LET pageFuture == Get(f, page)
    IN  [history |-> Put(h, page, Append(Get(h, page), Get(d, page))),
         future |-> Put(f, page, IF Len(pageFuture) = 0 THEN <<>>
                                 ELSE DropLast(pageFuture)),
         drawings |-> Put(d, page, IF Len(pageFuture) = 0 THEN <<>>
                                   ELSE Last(pageFuture))]

\* The three maps after redo() with activePage = page
redoStore(d, h, f, page) ==
    LET pageFuture == Get(f, page)
    IN  IF Len(pageFuture) = 0
        THEN [drawings |-> d, history |-> h, future |-> f]
        ELSE LET nextState == Last(pageFuture)
                 newFuture == DropLast(pageFuture)
             IN  [history |-> Put(h, page, Append(Get(h, page), Get(d, page))),
                  future |-> Put(f, page, newFuture),
                  drawings |-> Put(d, page, nextState)]

redo ==
    LET next == redoStore(drawings, history, future, activePage)
    IN  /\ history' = next.history
        /\ future' = next.future
        /\ drawings' = next.drawings
        /\ UNCHANGED <<file, numPages, activePage, isDrawingMode,
                       penColor, currentPath>>

\* Mutant: no early return on an empty page
clearPageDrawings_always ==
    /\ saveHistory(activePage)
    /\ drawings' = Put(drawings, activePage, <<>>)
    /\ UNCHANGED <<file, numPages, activePage, isDrawingMode,
                   penColor, currentPath>>

clearPageDrawings ==
    LET currentDrawings == Get(drawings, activePage)
    IN  IF Len(currentDrawings) = 0 THEN UNCHANGED prog
        ELSE /\ saveHistory(activePage)
             /\ drawings' = Put(drawings, activePage, <<>>)
             /\ UNCHANGED <<file, numPages, activePage, isDrawingMode,
                            penColor, currentPath>>

\* `draw-${Date.now()}`
DrawId(now) == <<"draw", now>>

\* Mutant: every stroke gets the width of the pen
newDrawing_penWidth(now) ==
    [id |-> DrawId(now),
     color |-> penColor,
     strokeWidth |-> PenWidth,
     points |-> currentPath]

newDrawing(now) ==
    [id |-> DrawId(now),
     color |-> penColor,
     strokeWidth |-> IF penColor = Eraser THEN EraserWidth ELSE PenWidth,
     points |-> currentPath]

\* Mutant: the path buffer is not cleared after the commit
handleEnd_keepsPath(pageNum, now) ==
    IF ~isDrawingMode \/ Len(currentPath) = 0 THEN UNCHANGED prog
    ELSE /\ saveHistory(pageNum)
         /\ drawings' = Put(drawings, pageNum,
                            Append(Get(drawings, pageNum), newDrawing(now)))
         /\ currentPath' = currentPath
         /\ UNCHANGED <<file, numPages, activePage, isDrawingMode, penColor>>

\* Mutant: a path of one point is discarded
handleEnd_needsTwoPoints(pageNum, now) ==
    IF ~isDrawingMode \/ Len(currentPath) < 2 THEN UNCHANGED prog
    ELSE /\ saveHistory(pageNum)
         /\ drawings' = Put(drawings, pageNum,
                            Append(Get(drawings, pageNum), newDrawing(now)))
         /\ currentPath' = <<>>
         /\ UNCHANGED <<file, numPages, activePage, isDrawingMode, penColor>>

\* Mutant: the new stroke is put in front of the page's strokes
handleEnd_prepends(pageNum, now) ==
    IF ~isDrawingMode \/ Len(currentPath) = 0 THEN UNCHANGED prog
    ELSE /\ saveHistory(pageNum)
         /\ drawings' = Put(drawings, pageNum,
                            <<newDrawing(now)>> \o Get(drawings, pageNum))
         /\ currentPath' = <<>>
         /\ UNCHANGED <<file, numPages, activePage, isDrawingMode, penColor>>

\* Mutant: an empty path is committed
handleEnd_commitsEmpty(pageNum, now) ==
    IF ~isDrawingMode THEN UNCHANGED prog
    ELSE /\ saveHistory(pageNum)
         /\ drawings' = Put(drawings, pageNum,
                            Append(Get(drawings, pageNum), newDrawing(now)))
         /\ currentPath' = <<>>
         /\ UNCHANGED <<file, numPages, activePage, isDrawingMode, penColor>>

\* now: the reading of Date.now() taken by the handler
handleEnd(pageNum, now) ==
    IF ~isDrawingMode \/ Len(currentPath) = 0 THEN UNCHANGED prog
    ELSE /\ saveHistory(pageNum)
         /\ drawings' = Put(drawings, pageNum,
                            Append(Get(drawings, pageNum), newDrawing(now)))
         /\ currentPath' = <<>>
         /\ UNCHANGED <<file, numPages, activePage, isDrawingMode, penColor>>

----------------------------------------------------------------------------
(* Events *)

\* The pages that have a DrawingCanvas
Canvases == IF file = 0 THEN {} ELSE 1..numPages

\* handleEnd commits; clearPageDrawings snapshots
Commits == isDrawingMode /\ Len(currentPath) > 0

Clears == Len(Get(drawings, activePage)) > 0

\* A snapshot pushed for page p stays within the depth of the model
HistoryRoom(in, p) == SnapshotTotal - Len(Get(future, p)) < in.depth

FileInput(in) ==
    \E d \in in.docs :
        /\ onFileChange(d)
        /\ trace' = FreshTrace
        /\ UNCHANGED <<surface, study>>

FileDrop(in) ==
    \E d \in in.docs, isPdf \in BOOLEAN :
        /\ onDrop(d, isPdf)
        /\ trace' = IF isPdf THEN FreshTrace ELSE trace
        /\ UNCHANGED <<surface, study>>

UrlForm(in) ==
    \E d \in in.docs :
        /\ onUrlSubmit(d)
        /\ trace' = FreshTrace
        /\ UNCHANGED <<surface, study>>

\* A document is identified by its page count
DocumentLoaded ==
    /\ file # 0
    /\ onDocumentLoadSuccess(file)
    /\ UNCHANGED <<surface, study, trace>>

PageIntersects ==
    \E p \in Canvases :
        /\ onIntersect(p)
        /\ UNCHANGED <<surface, study, trace>>

PreviousPage ==
    /\ file # 0
    /\ ~(activePage <= 1)
    /\ scrollToPage(activePage - 1)
    /\ UNCHANGED <<surface, study, trace>>

NextPage ==
    /\ file # 0
    /\ ~(activePage >= numPages)
    /\ scrollToPage(activePage + 1)
    /\ UNCHANGED <<surface, study, trace>>

AnnotateToggle ==
    /\ file # 0
    /\ toggleDrawingMode
    /\ UNCHANGED <<surface, study, trace>>

DoneButton ==
    /\ file # 0
    /\ isDrawingMode
    /\ closeDrawingMode
    /\ UNCHANGED <<surface, study, trace>>

PaletteButton(in) ==
    \E c \in in.colours :
        /\ file # 0
        /\ isDrawingMode
        /\ setPenColor(c)
        /\ UNCHANGED <<surface, study, trace>>

MouseDown(in) ==
    \E p \in Canvases, pos \in in.positions, rect \in in.rects :
        /\ handleMouseDown(pos, rect, p)
        /\ UNCHANGED <<surface, study, trace>>

MouseMove(in) ==
    \E pos \in in.positions, rect \in in.rects :
        /\ Canvases # {}
        /\ Len(currentPath) < in.pathLen
        /\ handleMouseMove(pos, rect)
        /\ UNCHANGED <<surface, study, trace>>

TouchStart(in) ==
    \E p \in Canvases, pos \in in.positions, rect \in in.rects :
        /\ handleTouchStart(pos, rect, p)
        /\ UNCHANGED <<surface, study, trace>>

TouchMove(in) ==
    \E pos \in in.touches, rect \in in.rects :
        /\ Canvases # {}
        /\ Len(currentPath) < in.pathLen
        /\ handleTouchMove(pos, rect)
        /\ UNCHANGED <<surface, study, trace>>

EndTrace(p, now) ==
    IF Commits THEN ObserveCommit(p, newDrawing(now)) ELSE trace

MouseUp(in) ==
    \E p \in Canvases, now \in in.instants :
        /\ Commits => HistoryRoom(in, p)
        /\ handleEnd(p, now)
        /\ trace' = EndTrace(p, now)
        /\ UNCHANGED <<surface, study>>

MouseLeave(in) ==
    \E p \in Canvases, now \in in.instants :
        /\ Commits => HistoryRoom(in, p)
        /\ handleEnd(p, now)
        /\ trace' = EndTrace(p, now)
        /\ UNCHANGED <<surface, study>>

TouchEnd(in) ==
    \E p \in Canvases, now \in in.instants :
        /\ Commits => HistoryRoom(in, p)
        /\ handleEnd(p, now)
        /\ trace' = EndTrace(p, now)
        /\ UNCHANGED <<surface, study>>

UndoButton ==
    /\ undo
    /\ trace' = ObserveCall(activePage, "undo")
    /\ UNCHANGED <<surface, study>>

RedoButton ==
    /\ redo
    /\ trace' = ObserveCall(activePage, "redo")
    /\ UNCHANGED <<surface, study>>

ClearButton(in) ==
    /\ Clears => HistoryRoom(in, activePage)
    /\ clearPageDrawings
    /\ trace' = ObserveCall(activePage, "clear")
    /\ UNCHANGED <<surface, study>>

Next ==
    \/ FileInput(HistoryInputs)
    \/ FileDrop(HistoryInputs)
    \/ UrlForm(HistoryInputs)
    \/ DocumentLoaded
    \/ PageIntersects
    \/ PreviousPage
    \/ NextPage
    \/ AnnotateToggle
    \/ DoneButton
    \/ PaletteButton(HistoryInputs)
    \/ MouseDown(HistoryInputs)
    \/ MouseMove(HistoryInputs)
    \/ TouchStart(HistoryInputs)
    \/ TouchMove(HistoryInputs)
    \/ MouseUp(HistoryInputs)
    \/ MouseLeave(HistoryInputs)
    \/ TouchEnd(HistoryInputs)
    \/ UndoButton
    \/ RedoButton
    \/ ClearButton(HistoryInputs)

Spec == Init /\ [][Next]_vars

----------------------------------------------------------------------------
(* The capture specification: the same handlers under inputs that tell    *)
(* captured paths apart.  One document of one page (its page buttons are  *)
(* disabled, so they are no event of this specification), paths of up to  *)
(* two points, touches inside and outside the canvas's box.               *)
(*                                                                         *)
(* The trace also follows a capture whose drawing mode is switched off:   *)
(* from the switch on, it holds the last move or end event the frozen     *)
(* capture received and the stroke an end event had in hand.  These       *)
(* events change nothing else, the trace is what tells they happened.     *)

CaptureInputs ==
    [docs |-> {1},
     positions |-> {<<5, 10>>},
     touches |-> {<<5, 10>>, <<15, 5>>},
     rects |-> {[left |-> 0, top |-> 0, width |-> 10, height |-> 10]},
     colours |-> {DefaultColor},
     instants |-> {0},
     pathLen |-> 2,
     depth |-> MaxHistory]

\* Drawing mode is off and the path buffer holds a path
Frozen == ~isDrawingMode /\ currentPath # <<>>

OffTrace == [live |-> FALSE, page |-> 0, strokes |-> <<>>, tail |-> <<"off">>]

FrozenTrace == ~trace.live /\ trace.tail # <<>> /\ trace.tail[1] = "off"

\* Drawing mode switched: off during a capture, or back on
SwitchTrace ==
    IF currentPath = <<>> THEN trace
    ELSE IF isDrawingMode THEN OffTrace
    ELSE IF FrozenTrace THEN VoidTrace
    ELSE trace

MoveSeen ==
    IF Frozen /\ FrozenTrace
    THEN [trace EXCEPT !.tail = <<"off", "move">>]
    ELSE trace

EndSeen(p, now) ==
    IF Frozen /\ FrozenTrace
    THEN [trace EXCEPT !.page = p, !.strokes = <<newDrawing(now)>>,
                       !.tail = <<"off", "end">>]
    ELSE EndTrace(p, now)

AnnotateToggleSeen ==
    /\ file # 0
    /\ toggleDrawingMode
    /\ trace' = SwitchTrace
    /\ UNCHANGED <<surface, study>>

DoneButtonSeen ==
    /\ file # 0
    /\ isDrawingMode
    /\ closeDrawingMode
    /\ trace' = SwitchTrace
    /\ UNCHANGED <<surface, study>>

MouseMoveSeen(in) ==
    \E pos \in in.positions, rect \in in.rects :
        /\ Canvases # {}
        /\ Len(currentPath) < in.pathLen
        /\ handleMouseMove(pos, rect)
        /\ trace' = MoveSeen
        /\ UNCHANGED <<surface, study>>

TouchMoveSeen(in) ==
    \E pos \in in.touches, rect \in in.rects :
        /\ Canvases # {}
        /\ Len(currentPath) < in.pathLen
        /\ handleTouchMove(pos, rect)
        /\ trace' = MoveSeen
        /\ UNCHANGED <<surface, study>>

MouseUpSeen(in) ==
    \E p \in Canvases, now \in in.instants :
        /\ Commits => HistoryRoom(in, p)
        /\ handleEnd(p, now)
        /\ trace' = EndSeen(p, now)
        /\ UNCHANGED <<surface, study>>

MouseLeaveSeen(in) ==
    \E p \in Canvases, now \in in.instants :
        /\ Commits => HistoryRoom(in, p)
        /\ handleEnd(p, now)
        /\ trace' = EndSeen(p, now)
        /\ UNCHANGED <<surface, study>>

TouchEndSeen(in) ==
    \E p \in Canvases, now \in in.instants :
        /\ Commits => HistoryRoom(in, p)
        /\ handleEnd(p, now)
        /\ trace' = EndSeen(p, now)
        /\ UNCHANGED <<surface, study>>

CaptureNext ==
    \/ FileInput(CaptureInputs)
    \/ FileDrop(CaptureInputs)
    \/ UrlForm(CaptureInputs)
    \/ DocumentLoaded
    \/ PageIntersects
    \/ AnnotateToggleSeen
    \/ DoneButtonSeen
    \/ PaletteButton(CaptureInputs)
    \/ MouseDown(CaptureInputs)
    \/ MouseMoveSeen(CaptureInputs)
    \/ TouchStart(CaptureInputs)
    \/ TouchMoveSeen(CaptureInputs)
    \/ MouseUpSeen(CaptureInputs)
    \/ MouseLeaveSeen(CaptureInputs)
    \/ TouchEndSeen(CaptureInputs)
    \/ UndoButton
    \/ RedoButton
    \/ ClearButton(CaptureInputs)

CaptureSpec == Init /\ [][CaptureNext]_vars

----------------------------------------------------------------------------
(* The begin specification: begin events at two positions, so that the    *)
(* point a begin event records is told from the points already in the     *)
(* path buffer.                                                            *)

BeginInputs ==
    [docs |-> {1},
     positions |-> {<<5, 10>>, <<10, 5>>},
     touches |-> {<<5, 10>>},
     rects |-> {[left |-> 0, top |-> 0, width |-> 10, height |-> 10]},
     colours |-> {DefaultColor},
     instants |-> {0},
     pathLen |-> 2,
     depth |-> 1]

\* The trace of the begin specification also tells an end or leave event
\* that found the path buffer empty: the event changes nothing else
IdleEndTrace ==
    [live |-> FALSE, page |-> 0, strokes |-> <<>>, tail |-> <<"idle", "end">>]

EndNoted(p, now) == IF currentPath = <<>> THEN IdleEndTrace ELSE EndTrace(p, now)

MouseUpNoted(in) ==
    \E p \in Canvases, now \in in.instants :
        /\ Commits => HistoryRoom(in, p)
        /\ handleEnd(p, now)
        /\ trace' = EndNoted(p, now)
        /\ UNCHANGED <<surface, study>>

MouseLeaveNoted(in) ==
    \E p \in Canvases, now \in in.instants :
        /\ Commits => HistoryRoom(in, p)
        /\ handleEnd(p, now)
        /\ trace' = EndNoted(p, now)
        /\ UNCHANGED <<surface, study>>

TouchEndNoted(in) ==
    \E p \in Canvases, now \in in.instants :
        /\ Commits => HistoryRoom(in, p)
        /\ handleEnd(p, now)
        /\ trace' = EndNoted(p, now)
        /\ UNCHANGED <<surface, study>>

BeginNext ==
    \/ FileInput(BeginInputs)
    \/ DocumentLoaded
    \/ AnnotateToggle
    \/ MouseDown(BeginInputs)
    \/ MouseMove(BeginInputs)
    \/ TouchStart(BeginInputs)
    \/ TouchMove(BeginInputs)
    \/ MouseUpNoted(BeginInputs)
    \/ MouseLeaveNoted(BeginInputs)
    \/ TouchEndNoted(BeginInputs)
    \/ UndoButton
    \/ RedoButton

BeginSpec == Init /\ [][BeginNext]_vars

----------------------------------------------------------------------------
(* The active-page specification: a document of two pages, commits on     *)
(* either canvas and the Undo button.  The trace holds the page of the     *)
(* last commit and the page's strokes after it, and tells whether the      *)
(* Undo button was clicked next.  Observer callbacks and page buttons      *)
(* are no drawing operations: they leave the trace as it is.               *)

CommitTrace(p, now) ==
    IF Commits
    THEN [live |-> TRUE, page |-> p,
          strokes |-> Append(Get(drawings, p), newDrawing(now)),
          tail |-> <<>>]
    ELSE trace

UndoNextTrace ==
    IF trace.live /\ trace.page # 0 /\ trace.tail = <<>>
    THEN [trace EXCEPT !.tail = <<"undo">>]
    ELSE VoidTrace

MouseDownAnew(in) ==
    \E p \in Canvases, pos \in in.positions, rect \in in.rects :
        /\ handleMouseDown(pos, rect, p)
        /\ trace' = IF isDrawingMode THEN VoidTrace ELSE trace
        /\ UNCHANGED <<surface, study>>

MouseUpLast(in) ==
    \E p \in Canvases, now \in in.instants :
        /\ Commits => HistoryRoom(in, p)
        /\ handleEnd(p, now)
        /\ trace' = CommitTrace(p, now)
        /\ UNCHANGED <<surface, study>>

UndoButtonNext ==
    /\ Len(Get(history, activePage)) > 0
    /\ undo
    /\ trace' = UndoNextTrace
    /\ UNCHANGED <<surface, study>>

ActiveNext ==
    \/ FileInput(HistoryInputs)
    \/ DocumentLoaded
    \/ PageIntersects
    \/ PreviousPage
    \/ NextPage
    \/ AnnotateToggle
    \/ MouseDownAnew(HistoryInputs)
    \/ MouseUpLast(HistoryInputs)
    \/ UndoButtonNext

ActiveSpec == Init /\ [][ActiveNext]_vars

----------------------------------------------------------------------------
(* The epoch specification: captures across switches of the drawing mode   *)
(* and loads.  The tail of the trace tells where the capture stands:       *)
(*   "begun"           a begin event started a path, no end event since    *)
(*   "ended"           an end or leave event was received since the begin  *)
(*   "ended", "moved"  a move event added a point after that end event     *)
(*   "stale"           an end event committed after that end event         *)
(* A load leaves the trace as it is.                                       *)

EpochInputs ==
    [docs |-> {1, 2},
     positions |-> {<<5, 10>>},
     touches |-> {<<5, 10>>},
     rects |-> {[left |-> 0, top |-> 0, width |-> 10, height |-> 10]},
     colours |-> {DefaultColor},
     instants |-> {0},
     pathLen |-> 2,
     depth |-> MaxHistory]

EndedTails == {<<"ended">>, <<"ended", "moved">>}

BegunTrace ==
    IF isDrawingMode THEN [FreshTrace EXCEPT !.tail = <<"begun">>] ELSE trace

MovedTrace ==
    IF isDrawingMode /\ currentPath # <<>> /\ trace.tail \in EndedTails
    THEN [trace EXCEPT !.tail = <<"ended", "moved">>]
    ELSE trace

EndedTrace ==
    IF Commits
    THEN [trace EXCEPT !.tail = IF @ \in EndedTails THEN <<"stale">>
                                ELSE <<"ended">>]
    ELSE IF trace.tail = <<"begun">> THEN [trace EXCEPT !.tail = <<"ended">>]
    ELSE trace

FileInputKept(in) ==
    \E d \in in.docs :
        /\ onFileChange(d)
        /\ UNCHANGED <<surface, study, trace>>

MouseDownEpoch(in) ==
    \E p \in Canvases, pos \in in.positions, rect \in in.rects :
        /\ handleMouseDown(pos, rect, p)
        /\ trace' = BegunTrace
        /\ UNCHANGED <<surface, study>>

MouseMoveEpoch(in) ==
    \E pos \in in.positions, rect \in in.rects :
        /\ Canvases # {}
        /\ Len(currentPath) < in.pathLen
        /\ handleMouseMove(pos, rect)
        /\ trace' = MovedTrace
        /\ UNCHANGED <<surface, study>>

\* With drawing mode off the canvas is pointer-events-none: a mouse button
\* released over it is not reported to it.  The leave event is (the canvas
\* stops being the target of the pointer), and so is the end of a touch
\* that began on it.
MouseUpEpoch(in) ==
    \E p \in Canvases, now \in in.instants :
        /\ isDrawingMode
        /\ Commits => HistoryRoom(in, p)
        /\ handleEnd(p, now)
        /\ trace' = EndedTrace
        /\ UNCHANGED <<surface, study>>

MouseLeaveEpoch(in) ==
    \E p \in Canvases, now \in in.instants :
        /\ Commits => HistoryRoom(in, p)
        /\ handleEnd(p, now)
        /\ trace' = EndedTrace
        /\ UNCHANGED <<surface, study>>

TouchEndEpoch(in) ==
    \E p \in Canvases, now \in in.instants :
        /\ Commits => HistoryRoom(in, p)
        /\ handleEnd(p, now)
        /\ trace' = EndedTrace
        /\ UNCHANGED <<surface, study>>

EpochNext ==
    \/ FileInputKept(EpochInputs)
    \/ DocumentLoaded
    \/ AnnotateToggle
    \/ DoneButton
    \/ MouseDownEpoch(EpochInputs)
    \/ MouseMoveEpoch(EpochInputs)
    \/ MouseUpEpoch(EpochInputs)
    \/ MouseLeaveEpoch(EpochInputs)
    \/ TouchEndEpoch(EpochInputs)

EpochSpec == Init /\ [][EpochNext]_vars

----------------------------------------------------------------------------
(* The reload specification: documents of one and two pages loaded one    *)
(* over the other, and two readings of the clock.  The trace tells a load *)
(* that discarded strokes or snapshots from a load over an empty store.   *)

ReloadInputs ==
    [docs |-> {1, 2},
     positions |-> {<<5, 10>>},
     touches |-> {<<5, 10>>},
     rects |-> {[left |-> 0, top |-> 0, width |-> 10, height |-> 10]},
     colours |-> {DefaultColor},
     instants |-> {0, 1},
     pathLen |-> 1,
     depth |-> MaxHistory]

\* The store holds nothing: no stroke and no snapshot on any page
StoreEmpty ==
    /\ \A q \in DOMAIN drawings : drawings[q] = <<>>
    /\ \A q \in DOMAIN history : history[q] = <<>>
    /\ \A q \in DOMAIN future : future[q] = <<>>

\* The trace after a load that discarded strokes or snapshots
DiscardTrace == [live |-> FALSE, page |-> 0, strokes |-> <<>>,
                 tail |-> <<"load">>]

LoadTrace == IF StoreEmpty THEN FreshTrace ELSE DiscardTrace

FileInputOver(in) ==
    \E d \in in.docs :
        /\ onFileChange(d)
        /\ trace' = LoadTrace
        /\ UNCHANGED <<surface, study>>

FileDropOver(in) ==
    \E d \in in.docs, isPdf \in BOOLEAN :
        /\ onDrop(d, isPdf)
        /\ trace' = IF isPdf THEN LoadTrace ELSE trace
        /\ UNCHANGED <<surface, study>>

UrlFormOver(in) ==
    \E d \in in.docs :
        /\ onUrlSubmit(d)
        /\ trace' = LoadTrace
        /\ UNCHANGED <<surface, study>>

ReloadNext ==
    \/ FileInputOver(ReloadInputs)
    \/ FileDropOver(ReloadInputs)
    \/ UrlFormOver(ReloadInputs)
    \/ DocumentLoaded
    \/ PageIntersects
    \/ PreviousPage
    \/ NextPage
    \/ AnnotateToggle
    \/ DoneButton
    \/ PaletteButton(ReloadInputs)
    \/ MouseDown(ReloadInputs)
    \/ MouseMove(ReloadInputs)
    \/ TouchStart(ReloadInputs)
    \/ TouchMove(ReloadInputs)
    \/ MouseUp(ReloadInputs)
    \/ MouseLeave(ReloadInputs)
    \/ TouchEnd(ReloadInputs)
    \/ UndoButton
    \/ RedoButton
    \/ ClearButton(ReloadInputs)

ReloadSpec == Init /\ [][ReloadNext]_vars

----------------------------------------------------------------------------
(* The batch specification: handlers that run before a re-render.          *)
(*                                                                         *)
(* A handler is a closure of the render that created it: what it reads     *)
(* directly (drawings, history, future, activePage, isDrawingMode,         *)
(* penColor, currentPath) is the rendered state, what it writes through    *)
(* an updater (prev => ...) is applied to the pending state.  React         *)
(* re-renders before the next event after a click, mousedown, mouseup,     *)
(* touchstart or touchend; after a mouseleave, mousemove or touchmove the  *)
(* re-render is scheduled for later and the next event may be dispatched   *)
(* first, to a handler of the same render.                                 *)

\* The state a render hands to its handlers
Rendered ==
    [drawings |-> drawings, history |-> history, future |-> future,
     activePage |-> activePage, isDrawingMode |-> isDrawingMode,
     penColor |-> penColor, currentPath |-> currentPath]

\* saveHistory(pageNum) of the render `seen`, applied to the pending `st`
saveHistoryFrom(seen, st, pageNum) ==
    LET currentDrawings == Get(seen.drawings, pageNum)
    IN  [st EXCEPT
            !.history = Put(@, pageNum, Append(Get(@, pageNum), currentDrawings)),
            !.future = Put(@, pageNum, <<>>)]

undoFrom(seen, st) ==
    LET page == seen.activePage
        pageHistory == Get(seen.history, page)
    IN  IF Len(pageHistory) = 0 THEN st
        ELSE LET previousState == Last(pageHistory)
                 newHistory == DropLast(pageHistory)
             IN  [st EXCEPT
                     !.future = Put(@, page, Append(Get(@, page),
                                                    Get(seen.drawings, page))),
                     !.history = Put(@, page, newHistory),
                     !.drawings = Put(@, page, previousState)]

redoFrom(seen, st) ==
    LET page == seen.activePage
        pageFuture == Get(seen.future, page)
    IN  IF Len(pageFuture) = 0 THEN st
        ELSE LET nextState == Last(pageFuture)
                 newFuture == DropLast(pageFuture)
             IN  [st EXCEPT
                     !.history = Put(@, page, Append(Get(@, page),
                                                     Get(seen.drawings, page))),
                     !.future = Put(@, page, newFuture),
                     !.drawings = Put(@, page, nextState)]

clearPageDrawingsFrom(seen, st) ==
    LET page == seen.activePage
        currentDrawings == Get(seen.drawings, page)
    IN  IF Len(currentDrawings) = 0 THEN st
        ELSE [saveHistoryFrom(seen, st, page) EXCEPT
                 !.drawings = Put(@, page, <<>>)]

handleEndFrom(seen, st, pageNum, now) ==
    IF ~seen.isDrawingMode \/ Len(seen.currentPath) = 0 THEN st
    ELSE LET made == [id |-> DrawId(now),
                      color |-> seen.penColor,
                      strokeWidth |-> IF seen.penColor = Eraser
                                      THEN EraserWidth ELSE PenWidth,
                      points |-> seen.currentPath]
         IN  [saveHistoryFrom(seen, st, pageNum) EXCEPT
                 !.drawings = Put(@, pageNum, Append(Get(@, pageNum), made)),
                 !.currentPath = <<>>]

\* The toolbar calls
Calls == {"undo", "redo", "clear"}

CallFrom(op, seen, st) ==
    CASE op = "undo" -> undoFrom(seen, st)
      [] op = "redo" -> redoFrom(seen, st)
      [] op = "clear" -> clearPageDrawingsFrom(seen, st)

\* A mouseleave on page p's canvas and then a toolbar call, both handled
\* by the handlers of the current render
LeaveThenCallFrom(p, now, op) ==
    CallFrom(op, Rendered, handleEndFrom(Rendered, Rendered, p, now))

\* The same two events with a re-render in between
LeaveThenCallInTurn(p, now, op) ==
    LET left == handleEndFrom(Rendered, Rendered, p, now)
    IN  CallFrom(op, left, left)

\* The pending state becomes the state
Becomes(st) ==
    /\ drawings' = st.drawings
    /\ history' = st.history
    /\ future' = st.future
    /\ currentPath' = st.currentPath
    /\ UNCHANGED <<file, numPages, activePage, isDrawingMode, penColor>>

\* The trace after two events handled by one render
BatchTrace == [live |-> FALSE, page |-> 0, strokes |-> <<>>,
               tail |-> <<"batch">>]

\* The stacks of st stay within the depth of the model
StacksWithin(in, st) ==
    SumLen(st.history, DOMAIN st.history)
        + SumLen(st.future, DOMAIN st.future) <= in.depth

\* The button of the call is not disabled in the current render
Clickable(op) ==
    CASE op = "undo" -> Len(Get(history, activePage)) > 0
      [] op = "redo" -> Len(Get(future, activePage)) > 0
      [] op = "clear" -> TRUE

MouseLeaveThenCallOn(in, p, now, op) ==
    /\ Commits
    /\ Clickable(op)
    /\ StacksWithin(in, LeaveThenCallFrom(p, now, op))
    /\ Becomes(LeaveThenCallFrom(p, now, op))
    /\ trace' = BatchTrace
    /\ UNCHANGED <<surface, study>>

MouseLeaveThenCall(in) ==
    \E p \in Canvases, now \in in.instants, op \in Calls :
        MouseLeaveThenCallOn(in, p, now, op)

BatchNext ==
    \/ FileInput(HistoryInputs)
    \/ FileDrop(HistoryInputs)
    \/ UrlForm(HistoryInputs)
    \/ DocumentLoaded
    \/ PageIntersects
    \/ PreviousPage
    \/ NextPage
    \/ AnnotateToggle
    \/ DoneButton
    \/ PaletteButton(HistoryInputs)
    \/ MouseDown(HistoryInputs)
    \/ MouseMove(HistoryInputs)
    \/ TouchStart(HistoryInputs)
    \/ TouchMove(HistoryInputs)
    \/ MouseUp(HistoryInputs)
    \/ MouseLeave(HistoryInputs)
    \/ TouchEnd(HistoryInputs)
    \/ UndoButton
    \/ RedoButton
    \/ ClearButton(HistoryInputs)
    \/ MouseLeaveThenCall(HistoryInputs)

BatchSpec == Init /\ [][BatchNext]_vars

----------------------------------------------------------------------------
(* The replay specification: the drawing canvases and their compositor.    *)
(*                                                                         *)
(* surface[p] is the DrawingCanvas of page p: box is the size of the page  *)
(* element the canvas lies on, width and height are the size of the        *)
(* canvas's bitmap, strokes and live are what the last run of the          *)
(* compositor painted, in bitmap pixels.  The canvas has no CSS size of    *)
(* its own (absolute inset-0 only), so it is displayed at the size of its  *)
(* bitmap and that is the rectangle its events are measured against.  The  *)
(* compositor is the effect of DrawingCanvas: it runs on every canvas      *)
(* after every render of PdfViewer, so it is part of every event that sets *)
(* state.  The other specifications leave the canvases out.                *)

\* The placeholder a page shows until it is rendered (w-[600px] h-[800px])
LoadingBox == [width |-> 600, height |-> 800]

ReplayInputs ==
    [docs |-> {1},
     positions |-> {<<300, 400>>, <<600, 800>>},
     sizes |-> {LoadingBox, [width |-> 1200, height |-> 1600]},
     instants |-> {0},
     pathLen |-> 2,
     depth |-> 1]

\* The size of a canvas's bitmap
SizeOf(canvas) == [width |-> canvas.width, height |-> canvas.height]

\* canvas.getBoundingClientRect() of a canvas of that size at the origin
RectOf(size) == [left |-> 0, top |-> 0, width |-> size.width, height |-> size.height]

Inside(pos, rect) ==
    /\ rect.left <= pos[1] /\ pos[1] <= rect.left + rect.width
    /\ rect.top <= pos[2] /\ pos[2] <= rect.top + rect.height

\* q * n for a fraction q and an integer n
Times(q, n) == Quotient(q.num * n, q.den)

\* Mutant: the x coordinate is scaled by the height of the canvas
PixelOf_byHeight(pt, width, height) ==
    [x |-> Times(pt.x, height), y |-> Times(pt.y, height)]

\* points[i].x * canvas.width, points[i].y * canvas.height
PixelOf(pt, width, height) ==
    [x |-> Times(pt.x, width), y |-> Times(pt.y, height)]

PixelsOf(points, width, height) ==
    [i \in 1..Len(points) |-> PixelOf(points[i], width, height)]

RECURSIVE Painted(_, _, _)
\* pageDrawings.forEach(d => drawPath(d.points, d.color, d.strokeWidth)):
\* the paths stroked on the bitmap, in order; drawPath returns at once on
\* fewer than two points
Painted(pageDrawings, width, height) ==
    IF pageDrawings = <<>> THEN <<>>
    ELSE LET d == Head(pageDrawings)
             rest == Painted(Tail(pageDrawings), width, height)
         IN  IF Len(d.points) < 2 THEN rest
             ELSE <<[color |-> d.color,
                     lineWidth |-> IF d.color = Eraser THEN EraserWidth
                                   ELSE d.strokeWidth,
                     pixels |-> PixelsOf(d.points, width, height)]>> \o rest

\* if (isDrawingCurrent && currentPath.length > 1): the live path stroked
LivePath(path, width, height) ==
    IF Len(path) > 1 THEN PixelsOf(path, width, height) ELSE <<>>

\* The effect of DrawingCanvas on a canvas that covers box: the bitmap takes
\* the size of the box, the strokes are painted, then the live path
Composite(box, pageDrawings, path) ==
    [box |-> box,
     width |-> box.width,
     height |-> box.height,
     strokes |-> Painted(pageDrawings, box.width, box.height),
     live |-> LivePath(path, box.width, box.height)]

BoxOf(p) == IF p \in DOMAIN surface THEN surface[p].box ELSE LoadingBox

\* The effects that follow the render of the next state
Composited ==
    surface' = [p \in (IF file' = 0 THEN {} ELSE 1..numPages') |->
                    Composite(BoxOf(p), Get(drawings', p), currentPath')]

\* The trace of the replay specification: the page of the canvas that
\* received the last begin event and the sizes of the canvas the points of
\* the path were captured on
BeginOn(p, box) == [FreshTrace EXCEPT !.page = p, !.tail = <<box>>]

MoveOn(box) ==
    IF isDrawingMode /\ Len(currentPath) > 0
    THEN [trace EXCEPT !.tail = Append(@, box)]
    ELSE trace

FileInputShown(in) ==
    \E d \in in.docs :
        /\ onFileChange(d)
        /\ trace' = FreshTrace
        /\ Composited
        /\ UNCHANGED study

DocumentLoadedShown ==
    /\ file # 0
    /\ onDocumentLoadSuccess(file)
    /\ UNCHANGED trace
    /\ Composited
    /\ UNCHANGED study

AnnotateToggleShown ==
    /\ file # 0
    /\ toggleDrawingMode
    /\ UNCHANGED trace
    /\ Composited
    /\ UNCHANGED study

MouseDownShown(in) ==
    \E p \in DOMAIN surface, pos \in in.positions :
        /\ Inside(pos, RectOf(SizeOf(surface[p])))
        /\ handleMouseDown(pos, RectOf(SizeOf(surface[p])), p)
        /\ trace' = IF isDrawingMode THEN BeginOn(p, SizeOf(surface[p])) ELSE trace
        /\ Composited
        /\ UNCHANGED study

MouseMoveShown(in) ==
    \E p \in DOMAIN surface, pos \in in.positions :
        /\ Inside(pos, RectOf(SizeOf(surface[p])))
        /\ Len(currentPath) < in.pathLen
        /\ handleMouseMove(pos, RectOf(SizeOf(surface[p])))
        /\ trace' = MoveOn(SizeOf(surface[p]))
        /\ Composited
        /\ UNCHANGED study

MouseUpShown(in) ==
    \E p \in DOMAIN surface, now \in in.instants :
        /\ Commits => HistoryRoom(in, p)
        /\ handleEnd(p, now)
        /\ UNCHANGED trace
        /\ Composited
        /\ UNCHANGED study

UndoButtonShown ==
    /\ undo
    /\ UNCHANGED trace
    /\ Composited
    /\ UNCHANGED study

RedoButtonShown ==
    /\ redo
    /\ UNCHANGED trace
    /\ Composited
    /\ UNCHANGED study

\* Zoom in / zoom out: setScale, a render with no other change of state
ZoomButton ==
    /\ file # 0
    /\ UNCHANGED prog
    /\ UNCHANGED trace
    /\ Composited
    /\ UNCHANGED study

\* The page element takes another size (the page is rendered at its scale);
\* PdfViewer does not render, the canvas keeps its bitmap until it does
BoxResized(in) ==
    \E p \in DOMAIN surface, size \in in.sizes :
        /\ surface' = [surface EXCEPT ![p].box = size]
        /\ UNCHANGED study
        /\ UNCHANGED prog
        /\ UNCHANGED trace

ReplayNext ==
    \/ FileInputShown(ReplayInputs)
    \/ DocumentLoadedShown
    \/ AnnotateToggleShown
    \/ MouseDownShown(ReplayInputs)
    \/ MouseMoveShown(ReplayInputs)
    \/ MouseUpShown(ReplayInputs)
    \/ UndoButtonShown
    \/ RedoButtonShown
    \/ ZoomButton
    \/ BoxResized(ReplayInputs)

ReplaySpec == Init /\ [][ReplayNext]_vars

----------------------------------------------------------------------------
(* The repaint specification: the replay specification with the render    *)
(* that follows a move event as a step of its own.  A mousemove is not a   *)
(* discrete event: its handler sets the path and returns, React renders    *)
(* later and the effect of DrawingCanvas paints then.  React does render   *)
(* every update it has scheduled, so the step is weakly fair; it is the    *)
(* only step the program takes by itself.  The other events are those      *)
(* dispatched after the scheduled render (the batch specification has the  *)
(* others).                                                                *)

\* A render scheduled by a move event has not painted yet
Pending ==
    \E p \in DOMAIN surface :
        surface[p].live # LivePath(currentPath, surface[p].width, surface[p].height)

MouseMoveQueued(in) ==
    \E p \in DOMAIN surface, pos \in in.positions :
        /\ Inside(pos, RectOf(SizeOf(surface[p])))
        /\ Len(currentPath) < in.pathLen
        /\ handleMouseMove(pos, RectOf(SizeOf(surface[p])))
        /\ trace' = MoveOn(SizeOf(surface[p]))
        /\ UNCHANGED <<surface, study>>

\* The scheduled render and the effects that follow it
Repaint ==
    /\ Pending
    /\ UNCHANGED prog
    /\ UNCHANGED trace
    /\ Composited
    /\ UNCHANGED study

RepaintNext ==
    \/ ~Pending /\ FileInputShown(ReplayInputs)
    \/ ~Pending /\ DocumentLoadedShown
    \/ ~Pending /\ AnnotateToggleShown
    \/ ~Pending /\ MouseDownShown(ReplayInputs)
    \/ MouseMoveQueued(ReplayInputs)
    \/ Repaint
    \/ ~Pending /\ MouseUpShown(ReplayInputs)
    \/ ~Pending /\ UndoButtonShown
    \/ ~Pending /\ RedoButtonShown
    \/ ~Pending /\ ZoomButton
    \/ BoxResized(ReplayInputs)

RepaintSpec == Init /\ [][RepaintNext]_vars /\ WF_vars(Repaint)

----------------------------------------------------------------------------
(* The pages specification: the canvases of a document of two pages, all   *)
(* of the size of the loading placeholder.                                 *)

PagesInputs ==
    [docs |-> {2},
     positions |-> {<<300, 400>>, <<600, 800>>},
     sizes |-> {LoadingBox},
     instants |-> {0},
     pathLen |-> 2,
     depth |-> 1]

PagesNext ==
    \/ FileInputShown(PagesInputs)
    \/ DocumentLoadedShown
    \/ AnnotateToggleShown
    \/ MouseDownShown(PagesInputs)
    \/ MouseMoveShown(PagesInputs)
    \/ MouseUpShown(PagesInputs)
    \/ UndoButtonShown
    \/ RedoButtonShown

PagesSpec == Init /\ [][PagesNext]_vars

----------------------------------------------------------------------------
(* The study specification: the analysis of pages.                         *)
(*                                                                         *)
(* A request in flight is the call of analyzePdfPage that analyzePage      *)
(* awaits: it holds the page number and the document whose page image was  *)
(* sent.  Its completion runs the rest of analyzePage, which sets state    *)
(* through updaters only.  annotations[p] is modelled by the document the  *)
(* analysed image came from.  The two effects that start analyses run      *)
(* after every render: the immediate call of the first is part of every    *)
(* event, their timers are events of their own, enabled while the state    *)
(* that set them lasts (a render that changes it clears them).             *)

StudyInputs == [docs |-> {1, 2}, inFlight |-> MaxInFlight]

\* The state the analysis reads and writes
Studied ==
    [file |-> file,
     numPages |-> numPages,
     activePage |-> activePage,
     annotations |-> annotations,
     analyzingPages |-> analyzingPages,
     studyMode |-> studyMode,
     requests |-> requests]

StudyBecomes(st) ==
    /\ file' = st.file
    /\ numPages' = st.numPages
    /\ activePage' = st.activePage
    /\ annotations' = st.annotations
    /\ analyzingPages' = st.analyzingPages
    /\ studyMode' = st.studyMode
    /\ requests' = st.requests
    /\ UNCHANGED <<drawings, history, future, isDrawingMode, penColor,
                   currentPath, surface, trace>>

\* The requests in flight stay within the bound of the model
InFlightWithin(in, st) == BagCardinality(st.requests) <= in.inFlight

Request(pageNum, doc) == SetToBag({[page |-> pageNum, doc |-> doc]})

\* analyzePage up to its await.  The element of every page of the list
\* holds a canvas (the drawing canvas at least), so the search for one
\* succeeds for the page numbers that pass the first test.
analyzePage(st, pageNum) ==
    IF pageNum < 1 \/ pageNum > st.numPages THEN st
    ELSE IF pageNum \in DOMAIN st.annotations \/ pageNum \in st.analyzingPages
    THEN st
    ELSE [st EXCEPT !.analyzingPages = @ \cup {pageNum},
                    !.requests = @ (+) Request(pageNum, st.file)]

\* analyzePage after its await, the request fulfilled
analyzePageDone(st, r) ==
    [st EXCEPT !.annotations = Put(@, r.page, r.doc),
               !.analyzingPages = @ \ {r.page},
               !.requests = @ (-) Request(r.page, r.doc)]

\* analyzePage after its await, the request rejected
analyzePageFailed(st, r) ==
    [st EXCEPT !.analyzingPages = @ \ {r.page},
               !.requests = @ (-) Request(r.page, r.doc)]

\* The auto-analyze effect, its immediate call
autoAnalyze(st) ==
    IF st.studyMode = "STUDY" /\ st.file # 0
       /\ st.activePage \notin DOMAIN st.annotations
    THEN analyzePage(st, st.activePage)
    ELSE st

\* The pages findNextUnanalyzedPage chooses from
Unanalyzed ==
    {i \in 1..numPages : i \notin DOMAIN annotations /\ i \notin analyzingPages}

findNextUnanalyzedPage == CHOOSE i \in Unanalyzed : \A j \in Unanalyzed : i <= j

\* setAnnotations({}), setStudyMode(StudyMode.READ), setAnalyzingPages(new Set())
resetViewerStudy ==
    /\ annotations' = EmptyMap
    /\ studyMode' = "READ"
    /\ analyzingPages' = {}

FileInputStudy(in) ==
    \E d \in in.docs :
        /\ onFileChange(d)
        /\ resetViewerStudy
        /\ UNCHANGED <<requests, surface, trace>>

DocumentLoadedStudy(in) ==
    LET st == autoAnalyze([Studied EXCEPT !.numPages = file])
    IN  /\ file # 0
        /\ InFlightWithin(in, st)
        /\ StudyBecomes(st)

PageIntersectsStudy(in) ==
    \E p \in Canvases :
        LET st == autoAnalyze([Studied EXCEPT !.activePage = p])
        IN  /\ InFlightWithin(in, st)
            /\ StudyBecomes(st)

StudyButton(in) ==
    LET st == autoAnalyze([Studied EXCEPT !.studyMode = "STUDY"])
    IN  /\ file # 0
        /\ InFlightWithin(in, st)
        /\ StudyBecomes(st)

ReadButton ==
    /\ file # 0
    /\ StudyBecomes([Studied EXCEPT !.studyMode = "READ"])

\* The Analyze button: disabled once the active page has annotations
AnalyzeButton(in) ==
    LET st == autoAnalyze(analyzePage(Studied, activePage))
    IN  /\ file # 0
        /\ activePage \notin DOMAIN annotations
        /\ InFlightWithin(in, st)
        /\ StudyBecomes(st)

\* The timer of the auto-analyze effect (500 ms): the page after the active
PrefetchTimer(in) ==
    LET st == autoAnalyze(analyzePage(Studied, activePage + 1))
    IN  /\ studyMode = "STUDY"
        /\ file # 0
        /\ activePage + 1 <= numPages
        /\ activePage + 1 \notin DOMAIN annotations
        /\ InFlightWithin(in, st)
        /\ StudyBecomes(st)

\* The timer of the background queue (1500 ms)
QueueTimer(in) ==
    /\ studyMode = "STUDY"
    /\ file # 0
    /\ numPages # 0
    /\ analyzingPages = {}
    /\ Unanalyzed # {}
    /\ LET st == autoAnalyze(analyzePage(Studied, findNextUnanalyzedPage))
       IN  /\ InFlightWithin(in, st)
           /\ StudyBecomes(st)

Fulfilled(in) ==
    \E r \in BagToSet(requests) :
        LET st == autoAnalyze(analyzePageDone(Studied, r))
        IN  /\ InFlightWithin(in, st)
            /\ StudyBecomes(st)

Rejected(in) ==
    \E r \in BagToSet(requests) :
        LET st == autoAnalyze(analyzePageFailed(Studied, r))
        IN  /\ InFlightWithin(in, st)
            /\ StudyBecomes(st)

StudyNext ==
    \/ FileInputStudy(StudyInputs)
    \/ DocumentLoadedStudy(StudyInputs)
    \/ PageIntersectsStudy(StudyInputs)
    \/ StudyButton(StudyInputs)
    \/ ReadButton
    \/ AnalyzeButton(StudyInputs)
    \/ PrefetchTimer(StudyInputs)
    \/ QueueTimer(StudyInputs)
    \/ Fulfilled(StudyInputs)
    \/ Rejected(StudyInputs)

StudySpec == Init /\ [][StudyNext]_vars

----------------------------------------------------------------------------
(* Properties *)

\* Page numbers the properties range over (0 and 3 never have a canvas)
PageNumbers == 0..3

Instants == HistoryInputs.instants

StoreNow == [drawings |-> drawings, history |-> history, future |-> future]

StoreNext == [drawings |-> drawings', history |-> history', future |-> future']

\* Two stores hold the same stroke lists and stacks on every page
SameStore(a, b) ==
    \A q \in PageNumbers :
        /\ Get(a.drawings, q) = Get(b.drawings, q)
        /\ Get(a.history, q) = Get(b.history, q)
        /\ Get(a.future, q) = Get(b.future, q)

\* The step commits a stroke on page p
CommitStep(p) == Commits /\ \E now \in Instants : handleEnd(p, now)

\* The step is a clear of a non-empty active page
ClearStep == Clears /\ clearPageDrawings

\* C1: after N stroke commits on one page of a freshly loaded document,
\* N consecutive undos leave the page empty, and N consecutive redos after
\* that leave it holding the N committed strokes in commit order.
C1_UndoAllRedoAll ==
    trace.live =>
        LET n == Len(trace.strokes)
            live == Get(drawings, trace.page)
        IN  /\ n = 0 => \A q \in PageNumbers : Get(drawings, q) = <<>>
            /\ trace.tail = Undos(n) => live = <<>>
            /\ trace.tail = Undos(n) \o Redos(n) => live = trace.strokes

C1_Witness ==
    /\ trace.live
    /\ Len(trace.strokes) = 2
    /\ trace.strokes[1] # trace.strokes[2]
    /\ trace.tail = Undos(2) \o Redos(2)

\* C2: undo and redo are exact inverses: where the active page's undo stack
\* is non-empty, a redo after the undo restores the live strokes and both
\* stacks; where its redo stack is non-empty, an undo after the redo does.
C2_UndoRedoInverse ==
    [][/\ (UndoButton /\ Len(Get(history, activePage)) > 0) =>
              SameStore(redoStore(drawings', history', future', activePage'),
                        StoreNow)
       /\ (RedoButton /\ Len(Get(future, activePage)) > 0) =>
              SameStore(undoStore(drawings', history', future', activePage'),
                        StoreNow)]_vars

C2_Witness ==
    /\ trace.live
    /\ Len(trace.strokes) = 2
    /\ trace.tail = <<"undo", "redo", "undo">>
    /\ Get(drawings, trace.page) = <<trace.strokes[1]>>
    /\ Get(future, trace.page) = <<trace.strokes>>

\* The scenario of C3: from an empty document, a pen stroke A and then an
\* eraser stroke B committed on page 1, followed by undo / redo calls.
ScenarioAB ==
    /\ trace.live
    /\ trace.page = 1
    /\ Len(trace.strokes) = 2
    /\ trace.strokes[1].color # Eraser
    /\ trace.strokes[2].color = Eraser

\* C3 (as amended): commit A, commit eraser B on page 1 gives [A,B]; undo
\* gives [A]; redo gives [A,B]; a second undo gives [A]; a third undo gives
\* []; a fourth undo is a no-op (undo stack empty, the store stays []).
C3_ScenarioAmended ==
    ScenarioAB =>
        LET A == trace.strokes[1]
            B == trace.strokes[2]
            live == Get(drawings, 1)
        IN  /\ trace.tail = <<>> => live = <<A, B>>
            /\ trace.tail = SubSeq(ScenarioTail, 1, 1) => live = <<A>>
            /\ trace.tail = SubSeq(ScenarioTail, 1, 2) => live = <<A, B>>
            /\ trace.tail = SubSeq(ScenarioTail, 1, 3) => live = <<A>>
            /\ trace.tail = SubSeq(ScenarioTail, 1, 4) =>
                   /\ live = <<>>
                   /\ Get(history, 1) = <<>>
                   /\ Get(future, 1) = <<<<A, B>>, <<A>>>>
            /\ trace.tail = ScenarioTail =>
                   /\ live = <<>>
                   /\ Get(history, 1) = <<>>
                   /\ Get(future, 1) = <<<<A, B>>, <<A>>>>

C3_Witness ==
    /\ ScenarioAB
    /\ trace.tail = SubSeq(ScenarioTail, 1, 4)
    /\ Get(drawings, 1) = <<>>

\* C3 (as stated): after undo, redo, the second undo restores the store to
\* [] and the third undo finds the undo stack empty.
C3_ScenarioAsStated ==
    ScenarioAB =>
        LET A == trace.strokes[1]
            B == trace.strokes[2]
            live == Get(drawings, 1)
        IN  /\ trace.tail = <<>> => live = <<A, B>>
            /\ trace.tail = SubSeq(ScenarioTail, 1, 1) => live = <<A>>
            /\ trace.tail = SubSeq(ScenarioTail, 1, 2) => live = <<A, B>>
            /\ trace.tail = SubSeq(ScenarioTail, 1, 3) =>
                   /\ live = <<>>
                   /\ Get(history, 1) = <<>>
            /\ trace.tail = SubSeq(ScenarioTail, 1, 4) => live = <<>>

\* After the step page p's redo stack is empty and redo on p changes nothing
FutureCleared(p) ==
    /\ Get(future', p) = <<>>
    /\ redoStore(drawings', history', future', p) = StoreNext

\* C4: a stroke commit, or a clear of a non-empty page, leaves that page's
\* redo stack empty, so a redo on that page right after it is a no-op.
C4_MutationClearsFuture ==
    [][/\ \A p \in PageNumbers : CommitStep(p) => FutureCleared(p)
       /\ ClearStep => FutureCleared(activePage)]_vars

C4_Witness ==
    /\ trace.live
    /\ Len(trace.strokes) = 1
    /\ trace.tail = <<"redo">>
    /\ Get(drawings, trace.page) = trace.strokes
    /\ trace.page \in DOMAIN future
    /\ future[trace.page] = <<>>

\* C5: undo on a page whose undo stack is empty leaves the strokes, the undo
\* stacks and the redo stacks unchanged.
C5_UndoOnEmptyHistory ==
    [][(UndoButton /\ Len(Get(history, activePage)) = 0) =>
           UNCHANGED <<drawings, history, future>>]_vars

C5_Witness ==
    /\ trace.live
    /\ trace.tail = ScenarioTail
    /\ Get(history, trace.page) = <<>>

\* C6: redo on a page whose redo stack is empty leaves the strokes, the undo
\* stacks and the redo stacks unchanged.
C6_RedoOnEmptyFuture ==
    [][(RedoButton /\ Len(Get(future, activePage)) = 0) =>
           UNCHANGED <<drawings, history, future>>]_vars

C6_Witness ==
    /\ trace.live
    /\ Len(trace.strokes) = 2
    /\ trace.tail = <<"redo">>
    /\ Get(future, trace.page) = <<>>
    /\ Len(Get(history, trace.page)) = 2

\* C7: clearing a page whose stroke list is empty pushes no snapshot and
\* changes neither the strokes nor the redo stacks, also after undoing back
\* to empty.
C7_ClearOnEmptyPage ==
    [][(ClearButton(HistoryInputs) /\ Get(drawings, activePage) = <<>>) =>
           UNCHANGED <<drawings, history, future>>]_vars

C7_Witness ==
    /\ trace.live
    /\ Len(trace.strokes) > 0
    /\ trace.tail = Undos(Len(trace.strokes)) \o <<"clear">>
    /\ Get(drawings, trace.page) = <<>>
    /\ Get(history, trace.page) = <<>>
    /\ Len(Get(future, trace.page)) = Len(trace.strokes)

\* The step leaves every page other than p as it was
OthersUnchanged(p) ==
    \A q \in PageNumbers \ {p} :
        /\ Get(drawings', q) = Get(drawings, q)
        /\ Get(history', q) = Get(history, q)
        /\ Get(future', q) = Get(future, q)

\* C8: a commit, undo, redo or clear that targets page p leaves the strokes,
\* the undo stack and the redo stack of every other page unchanged.
C8_PageIndependence ==
    [][\/ UNCHANGED <<drawings, history, future>>
       \/ /\ \A p \in PageNumbers :
                 (\E now \in Instants : handleEnd(p, now)) => OthersUnchanged(p)
          /\ undo => OthersUnchanged(activePage)
          /\ redo => OthersUnchanged(activePage)
          /\ clearPageDrawings => OthersUnchanged(activePage)]_vars

C8_Witness ==
    /\ Len(Get(drawings, 1)) = 1
    /\ Len(Get(history, 1)) = 1
    /\ Get(drawings, 2) = <<>>
    /\ Len(Get(future, 2)) = 1

\* C9: a stroke commit, or a clear of a non-empty page, pushes exactly one
\* snapshot onto that page's undo stack, equal to the page's strokes before
\* the mutation; the commit empties the path buffer, and an end event that
\* finds the buffer empty (a mouse-leave after the mouse-up) changes nothing.
C9_OneSnapshotPerMutation ==
    [][/\ \A p \in PageNumbers :
              CommitStep(p) =>
                  /\ Get(history', p) = Append(Get(history, p), Get(drawings, p))
                  /\ Len(Get(drawings', p)) = Len(Get(drawings, p)) + 1
                  /\ currentPath' = <<>>
       /\ ClearStep =>
              /\ Get(history', activePage) =
                     Append(Get(history, activePage), Get(drawings, activePage))
              /\ Get(drawings', activePage) = <<>>
       /\ \A p \in PageNumbers :
              (currentPath = <<>> /\ \E now \in Instants : handleEnd(p, now)) =>
                  UNCHANGED <<drawings, history, future>>]_vars

C9_Witness ==
    \E p \in PageNumbers :
        /\ Len(Get(drawings, p)) = 2
        /\ Get(history, p) = <<<<>>, <<Get(drawings, p)[1]>>>>
        /\ currentPath = <<>>

\* b is a with one stroke appended, or a non-empty a cleared
OneMutation(a, b) ==
    \/ Len(b) = Len(a) + 1 /\ SubSeq(b, 1, Len(a)) = a
    \/ a # <<>> /\ b = <<>>

\* C10: for every page, the undo stack's snapshots in order followed by the
\* live strokes start from the empty page and each element is obtained from
\* the one before by one mutation (one stroke appended, or a non-empty list
\* cleared).
C10_HistoryChain ==
    \A p \in PageNumbers :
        LET chain == Append(Get(history, p), Get(drawings, p))
        IN  /\ chain[1] = <<>>
            /\ \A i \in 1..(Len(chain) - 1) : OneMutation(chain[i], chain[i + 1])

C10_Witness ==
    \E p \in PageNumbers :
        /\ Len(Get(history, p)) = 2
        /\ Get(history, p)[2] # <<>>
        /\ Get(drawings, p) = <<>>

----------------------------------------------------------------------------
(* Properties of the capture (CaptureSpec) *)

\* Readings of the clock in the capture and reload specifications
Readings == CaptureInputs.instants \cup ReloadInputs.instants

\* The step is an end or leave event on page p's canvas
EndsOn(p) == \E now \in Readings : handleEnd(p, now)

\* The step appends one stroke made of the captured path to page p
AppendsPath(p) ==
    LET old == Get(drawings, p)
        new == Get(drawings', p)
    IN  /\ Len(new) = Len(old) + 1
        /\ SubSeq(new, 1, Len(old)) = old
        /\ Last(new).points = currentPath

\* C11 (as amended): with drawing mode enabled, an end event that follows
\* the begin event with no move in between (the path buffer holds the one
\* point of the begin event) appends exactly one stroke of that single
\* point to the page and pushes one snapshot: one undo step is added.
C11_BeginEndCommitsDot ==
    [][\A p \in PageNumbers :
           (isDrawingMode /\ Len(currentPath) = 1 /\ EndsOn(p)) =>
               /\ AppendsPath(p)
               /\ Len(Last(Get(drawings', p)).points) = 1
               /\ Len(Get(history', p)) = Len(Get(history, p)) + 1]_vars

C11_Witness ==
    /\ trace.live
    /\ trace.tail = <<>>
    /\ Len(trace.strokes) = 1
    /\ Len(trace.strokes[1].points) = 1
    /\ Get(drawings, trace.page) = trace.strokes
    /\ Get(history, trace.page) = <<<<>>>>
    /\ currentPath = <<>>

\* C11 (as stated): an end event that follows the begin event with no move
\* in between appends no stroke to the page and adds no undo step.
C11_BeginEndAppendsNothing ==
    [][\A p \in PageNumbers :
           (Len(currentPath) = 1 /\ EndsOn(p)) =>
               /\ Get(drawings', p) = Get(drawings, p)
               /\ Get(history', p) = Get(history, p)]_vars

\* C12: once drawing mode has been toggled off during a capture, the next
\* end or leave event on a page appends the captured path to that page as a
\* stroke and empties the path buffer (the capture is Idle again).
C12_CommitAfterToggleOff ==
    (FrozenTrace /\ trace.tail = <<"off", "end">>) =>
        /\ currentPath = <<>>
        /\ Get(drawings, trace.page) # <<>>
        /\ Last(Get(drawings, trace.page)) = trace.strokes[1]

\* C13: once drawing mode has been toggled off during a capture, a mouse or
\* touch move leaves the path buffer as it was.
C13_MovesIgnoredWhenOff ==
    [][(/\ Frozen
        /\ MouseMoveSeen(CaptureInputs) \/ TouchMoveSeen(CaptureInputs)) =>
           currentPath' = currentPath]_vars

C13_Witness ==
    /\ FrozenTrace
    /\ trace.tail = <<"off", "move">>
    /\ Frozen
    /\ Len(currentPath) = 1

----------------------------------------------------------------------------
(* Properties of loading (ReloadSpec) *)

\* The step loads a document: file picker, drop of a PDF, or URL
LoadStep ==
    \E d \in ReloadInputs.docs :
        onFileChange(d) \/ onDrop(d, TRUE) \/ onUrlSubmit(d)

\* C15: right after a document is loaded by file picker, drop or URL, every
\* page's strokes, undo stack and redo stack are empty, and undo and redo
\* change nothing on any page.
C15_LoadDiscardsStore ==
    [][LoadStep =>
           \A q \in PageNumbers :
               /\ Get(drawings', q) = <<>>
               /\ Get(history', q) = <<>>
               /\ Get(future', q) = <<>>
               /\ undoStore(drawings', history', future', q) = StoreNext
               /\ redoStore(drawings', history', future', q) = StoreNext]_vars

C15_Witness ==
    /\ trace = DiscardTrace
    /\ file # 0
    /\ drawings = EmptyMap
    /\ history = EmptyMap
    /\ future = EmptyMap

\* Page numbers that are keys of the strokes map or of a stack map
StoreKeys == DOMAIN drawings \cup DOMAIN history \cup DOMAIN future

\* C16: every key of the strokes map, the undo-stack map and the redo-stack
\* map is a page of the loaded document: none while no document is loaded,
\* and within 1..numPages once the document's page count has been reported
\* (a document is identified by its page count).
C16_KeysAreValidPages ==
    /\ file = 0 => StoreKeys = {}
    /\ (file # 0 /\ numPages = file) => StoreKeys \subseteq 1..numPages

----------------------------------------------------------------------------
(* Properties of points and identifiers *)

\* 0 <= q <= 1 for a fraction q
InUnit(q) == 0 <= q.num /\ q.num <= q.den

InUnitSquare(pt) == InUnit(pt.x) /\ InUnit(pt.y)

\* The stroke lists of page q: the live list and every snapshot
Lists(q) ==
    {Get(drawings, q)}
        \cup {Get(history, q)[i] : i \in 1..Len(Get(history, q))}
        \cup {Get(future, q)[i] : i \in 1..Len(Get(future, q))}

\* C18: every point of the path buffer and of every committed stroke, live
\* or in a snapshot, has both coordinates in [0,1], whatever mouse and touch
\* events were received, touch moves outside the canvas's box included.
C18_PointsInUnitSquare ==
    /\ \A i \in 1..Len(currentPath) : InUnitSquare(currentPath[i])
    /\ \A q \in PageNumbers : \A list \in Lists(q) :
           \A i \in 1..Len(list) : \A j \in 1..Len(list[i].points) :
               InUnitSquare(list[i].points[j])

\* C19: no two distinct committed strokes carry the same id: not two at
\* different positions of one list, not two on different pages, not two
\* different strokes of one page in different lists (live or snapshot).
C19_UniqueIds ==
    \A p, q \in PageNumbers : \A a \in Lists(p), b \in Lists(q) :
        \A i \in 1..Len(a), j \in 1..Len(b) :
            a[i].id = b[j].id =>
                /\ p = q
                /\ a[i] = b[j]
                /\ a = b => i = j

----------------------------------------------------------------------------
(* Properties of batched handlers (BatchSpec) *)

\* The strokes and stacks of a state record
StoreOf(st) ==
    [drawings |-> st.drawings, history |-> st.history, future |-> st.future]

\* Handlers run on the state they rendered change it as the actions do
HandlersAgree ==
    /\ StoreOf(undoFrom(Rendered, Rendered)) =
           undoStore(drawings, history, future, activePage)
    /\ StoreOf(redoFrom(Rendered, Rendered)) =
           redoStore(drawings, history, future, activePage)

\* C17: two mutating handlers invoked on the same page against the same
\* rendered state (a leave event on the active page's canvas that commits,
\* then undo, redo or clear, with no re-render in between) leave the
\* strokes, the undo stacks and the redo stacks as the two operations
\* applied one after the other to up-to-date state would.
C17_BatchedAsInTurn ==
    [][\A now \in Instants, op \in Calls :
           MouseLeaveThenCallOn(HistoryInputs, activePage, now, op) =>
               SameStore(StoreNext,
                         StoreOf(LeaveThenCallInTurn(activePage, now, op)))]_vars

----------------------------------------------------------------------------
(* Properties of the compositor (ReplaySpec) *)

\* The fraction q is the fraction r times the integer n
IsTimes(q, r, n) == q.num * r.den = r.num * n * q.den

\* The strokes of a page that the compositor strokes
Drawn(pageDrawings) == SelectSeq(pageDrawings, LAMBDA d : Len(d.points) >= 2)

Half == [num |-> 1, den |-> 2]

Whole(n) == [num |-> n, den |-> 1]

\* C20: on every canvas the compositor has placed each point (x, y) of each
\* painted stroke at pixel (x * W, y * H) of the canvas's current W-by-H
\* bitmap, whatever the size of the canvas was when the point was captured;
\* so on a 1200-by-1600 canvas the point (1/2, 1/2) is at pixel (600, 800).
C20_ReplayAtCurrentSize ==
    \A p \in DOMAIN surface :
        LET canvas == surface[p]
            drawn == Drawn(Get(drawings, p))
        IN  /\ Len(canvas.strokes) = Len(drawn)
            /\ \A k \in 1..Len(drawn) :
                   /\ Len(canvas.strokes[k].pixels) = Len(drawn[k].points)
                   /\ \A i \in 1..Len(drawn[k].points) :
                          LET pt == drawn[k].points[i]
                              px == canvas.strokes[k].pixels[i]
                          IN  /\ IsTimes(px.x, pt.x, canvas.width)
                              /\ IsTimes(px.y, pt.y, canvas.height)
                              /\ (/\ pt.x = Half /\ pt.y = Half
                                  /\ canvas.width = 1200
                                  /\ canvas.height = 1600) =>
                                     px = [x |-> Whole(600), y |-> Whole(800)]

\* A stroke whose points were captured on a 600-by-800 canvas, the first at
\* (1/2, 1/2), painted on the canvas resized to 1200 by 1600
C20_Witness ==
    /\ trace.tail = <<LoadingBox, LoadingBox>>
    /\ currentPath = <<>>
    /\ Len(Get(drawings, 1)) = 1
    /\ drawings[1][1].points[1] = [x |-> Half, y |-> Half]
    /\ 1 \in DOMAIN surface
    /\ surface[1].width = 1200
    /\ surface[1].height = 1600
    /\ Len(surface[1].strokes) = 1
    /\ surface[1].strokes[1].pixels[1] = [x |-> Whole(600), y |-> Whole(800)]

----------------------------------------------------------------------------
(* Properties of the canvases of several pages (PagesSpec) *)

\* C21: a canvas shows the live path only if it is the canvas of the page
\* that received the begin event of the path.
C21_LiveOnlyOnBegunPage ==
    \A p \in DOMAIN surface :
        surface[p].live # <<>> => p = trace.page

----------------------------------------------------------------------------
(* Properties of repainting (RepaintSpec) *)

\* The canvas of page p shows the page's strokes and the live path at the
\* size of the page element
Redrawn(p) ==
    surface[p] = Composite(surface[p].box, Get(drawings, p), currentPath)

\* C22: whenever the canvas of a page does not show the page's current
\* strokes and the live path at the current size of the page element (a
\* stroke list changed, the page element was resized, the live path gained
\* a point), it is eventually redrawn so that it does.
C22_EventuallyRedrawn ==
    \A p \in 1..1 :
        (p \in DOMAIN surface /\ ~Redrawn(p)) ~>
            (p \in DOMAIN surface /\ Redrawn(p))

\* The part of it that the scheduled render provides: a canvas that does
\* not show the live path is eventually repainted
LivePathRepainted ==
    Pending ~> ~Pending

----------------------------------------------------------------------------
(* Further properties of the history manager (Spec) *)

\* C23: after k stroke commits on a page of a freshly loaded document, with
\* no undo, redo or clear since, the page's undo stack holds exactly k
\* snapshots: the i-th is the page as it was before the i-th commit, so the
\* oldest, the empty page, is still there.
C23_NoEviction ==
    (trace.live /\ trace.page # 0 /\ trace.tail = <<>>) =>
        LET pageHistory == Get(history, trace.page)
            k == Len(trace.strokes)
        IN  /\ Len(pageHistory) = k
            /\ \A i \in 1..k : pageHistory[i] = SubSeq(trace.strokes, 1, i - 1)

C23_Witness ==
    /\ trace.live
    /\ trace.page # 0
    /\ trace.tail = <<>>
    /\ Len(trace.strokes) = MaxHistory
    /\ Len(Get(history, trace.page)) = MaxHistory
    /\ Get(history, trace.page)[1] = <<>>

----------------------------------------------------------------------------
(* Properties of begin events (BeginSpec) *)

\* The fraction q is n / d
IsRatio(q, n, d) == q.num * d = n * q.den

\* C24: a mouse or touch begin event at a position of a canvas changes
\* nothing while drawing mode is off; while it is on, it leaves the path
\* buffer holding exactly one point, the position of the event relative to
\* the canvas's rectangle, and changes nothing else.
C24_BeginEvent ==
    [][\A p \in PageNumbers, pos \in BeginInputs.positions,
          rect \in BeginInputs.rects :
           (handleMouseDown(pos, rect, p) \/ handleTouchStart(pos, rect, p)) =>
               IF isDrawingMode
               THEN /\ Len(currentPath') = 1
                    /\ IsRatio(currentPath'[1].x, pos[1] - rect.left, rect.width)
                    /\ IsRatio(currentPath'[1].y, pos[2] - rect.top, rect.height)
                    /\ UNCHANGED <<file, numPages, activePage, drawings,
                                   history, future, isDrawingMode, penColor>>
               ELSE UNCHANGED prog]_vars

\* Capturing, the buffer holding the point of a begin event at (10, 5)
C24_Witness ==
    /\ isDrawingMode
    /\ currentPath = <<[x |-> Whole(1), y |-> Half]>>

\* The step is an end or leave event of the begin specification
EndNotedStep ==
    \/ MouseUpNoted(BeginInputs)
    \/ MouseLeaveNoted(BeginInputs)
    \/ TouchEndNoted(BeginInputs)

\* C25: an end or leave event that finds the path buffer empty appends no
\* stroke, pushes no snapshot and leaves the redo stack of every page as it
\* was; the buffer stays empty.
C25_IdleEndDiscarded ==
    [][(currentPath = <<>> /\ EndNotedStep) =>
           /\ drawings' = drawings
           /\ history' = history
           /\ future' = future
           /\ currentPath' = <<>>]_vars

\* An end or leave event found the buffer empty after a stroke was
\* committed (the leave that follows the end of a capture)
C25_Witness ==
    /\ trace.tail = <<"idle", "end">>
    /\ currentPath = <<>>
    /\ Len(Get(drawings, 1)) = 1
    /\ Get(history, 1) = <<<<>>>>
    /\ Get(future, 1) = <<>>

----------------------------------------------------------------------------
(* Properties of the tool selection (Spec) *)

\* C26: the stroke a commit appends has the colour selected at the time of
\* the commit (a palette colour or the eraser sentinel) and the width 20
\* if that is the eraser sentinel, 4 otherwise; so on the page every stroke
\* of width 20 is an eraser stroke and every other stroke has width 4.
C26_StrokeCarriesTool ==
    [][\A p \in PageNumbers :
           CommitStep(p) =>
               LET stroke == Last(Get(drawings', p))
               IN  /\ stroke.color = penColor
                   /\ stroke.color \in HistoryInputs.colours
                   /\ stroke.strokeWidth = IF penColor = "eraser" THEN 20 ELSE 4
                   /\ \A i \in 1..Len(Get(drawings', p)) :
                          LET d == Get(drawings', p)[i]
                          IN  /\ d.strokeWidth \in {4, 20}
                              /\ d.strokeWidth = 20 <=> d.color = "eraser"]_vars

\* A page holding a pen stroke and then an eraser stroke
C26_Witness ==
    \E p \in PageNumbers :
        /\ Len(Get(drawings, p)) = 2
        /\ drawings[p][1].color = DefaultColor
        /\ drawings[p][1].strokeWidth = 4
        /\ drawings[p][2].color = Eraser
        /\ drawings[p][2].strokeWidth = 20
        /\ penColor = Eraser

----------------------------------------------------------------------------
(* Properties of the active page (ActiveSpec) *)

\* C27: when the Undo button is clicked next after a stroke was committed
\* on page p, page p holds its strokes without that stroke, whichever page
\* is the active page.
C27_UndoRemovesLastStroke ==
    (trace.live /\ trace.tail = <<"undo">>) =>
        Get(drawings, trace.page) = DropLast(trace.strokes)

----------------------------------------------------------------------------
(* Properties of capture epochs (EpochSpec) *)

\* C28: once an end or leave event has been received, no move event adds a
\* point and no end event commits a stroke until the next begin event,
\* also when the drawing mode was switched or a document was loaded in
\* between: the points of a committed stroke are those recorded from one
\* begin event to the first end or leave event after it.
C28_StrokeWithinOneCapture ==
    trace.tail \notin {<<"ended", "moved">>, <<"stale">>}

----------------------------------------------------------------------------
(* Properties of the page analysis (StudySpec) *)

\* C29: the annotations of a page come from an analysis of the loaded
\* document: a response to a request made before the load of another
\* document does not become annotations of that document.
C29_AnnotationsOfLoadedDocument ==
    \A p \in DOMAIN annotations : annotations[p] = file

\* The requests in flight for page p
InFlight(p) ==
    LET of == {r \in BagToSet(requests) : r.page = p}
    IN  IF of = {} THEN 0
        ELSE BagCardinality([r \in of |-> CopiesIn(r, requests)])

\* The step starts an analysis of page p
Starts(p) ==
    LET of == {r \in BagToSet(requests') : r.page = p}
    IN  \E r \in of : CopiesIn(r, requests') > CopiesIn(r, requests)

\* C30: at any time at most one request is in flight for a page, and no
\* step starts an analysis of a page that has annotations.
C30_OneAnalysisPerPage ==
    /\ [](\A p \in PageNumbers : InFlight(p) <= 1)
    /\ [][\A p \in PageNumbers :
              Starts(p) => p \notin DOMAIN annotations']_vars

====
